---- MODULE Spec2Model ----
(***************************************************************************)
(* Group-membership lifecycle and task-assignment consistency of the       *)
(* Cracken API (app/api/v1/groups.py, app/api/v1/tasks.py, app/models).    *)
(*                                                                         *)
(* The committed contents of the relational store are the variables        *)
(* groups, group_members, tasks, task_assignments and completions.         *)
(* Spec, SpecTasks and SpecAssign run every request handler to completion, *)
(* one request at a time. The SpecConc specifications run workers on the   *)
(* shared store: there the handlers they study take one step for their     *)
(* queries and one step up to each commit.                                 *)
(***************************************************************************)
EXTENDS Integers, Sequences, FiniteSets, TLC

\* ------------------------------------------------------------------ bounds
NumUsers == 3
MaxGroups == 2
NumCodes == 2
MaxTime == 1
MaxTasks == 2
MaxList == 2
MaxCompletions == 1
MaxTaskGroups == 1
NumWorkers == 2
NumTaskWorkers == 1
MaxConcList == 1
MaxConcGroups == 1
MaxLifecycleTasks == 1
NumNames == 2

\* ------------------------------------------------------- program constants
max_attempts == 5

Users == 1..NumUsers
Codes == 1..NumCodes
Times == 0..MaxTime
Workers == 1..NumWorkers
TaskWorkers == 1..NumTaskWorkers
Names == 1..NumNames

VARIABLES
    groups,             \* groups table: id -> [invite_code, created_by]
    next_group_id,      \* groups.id autoincrement
    group_members,      \* group_members table: rows [user_id, group_id, joined_at, role]
    tasks,              \* tasks table: id -> [group_id, name, is_active]
    next_task_id,       \* tasks.id autoincrement
    task_assignments,   \* task_assignments table: rows [task_id, user_id]
    completions,        \* completions table: rows [id, task_id, user_id, group_id]
    next_completion_id, \* completions.id autoincrement
    now,                \* last value returned by datetime.utcnow()
    resp,               \* the request last answered and its response
    req                 \* per worker: the request in flight and its locals

store == <<groups, next_group_id, group_members, tasks, next_task_id,
           task_assignments, completions, next_completion_id, now>>
vars == <<groups, next_group_id, group_members, tasks, next_task_id,
          task_assignments, completions, next_completion_id, now, resp, req>>

\* ----------------------------------------------------------------- helpers
Min(a, b) == IF a <= b THEN a ELSE b

SeqsUpTo(S, n) == UNION {[1..k -> S] : k \in 0..n}

Range(s) == {s[i] : i \in DOMAIN s}

HasDuplicates(s) == \E i, j \in DOMAIN s : i /= j /\ s[i] = s[j]

\* datetime.utcnow(): the clock never runs backwards; two calls may return
\* the same value.
utcnow == now..Min(now + 1, MaxTime)

\* The rows of gm that belong to group g.
MembersOf(gm, g) == {m \in gm : m.group_id = g}

MemberIds(gm, g) == {m.user_id : m \in MembersOf(gm, g)}

IsMember(gm, g, u) == \E m \in gm : m.group_id = g /\ m.user_id = u

\* The select that returns "admin" for every member.
RoleOf_admin_for_members(gm, g, u) == IF IsMember(gm, g, u) THEN "admin" ELSE "none"

\* select(group_members.c.role).where(group_id, user_id).scalar()
RoleOf(gm, g, u) ==
    IF IsMember(gm, g, u)
    THEN (CHOOSE m \in gm : m.group_id = g /\ m.user_id = u).role
    ELSE "none"

\* The count without its WHERE clause: the rows of every group.
get_member_count_all_rows(gm, g) == Cardinality(gm)

\* The count that stops at the first row.
get_member_count_first_row(gm, g) == Min(1, Cardinality(MembersOf(gm, g)))

get_member_count(gm, g) == Cardinality(MembersOf(gm, g))

\* The query without its filter: every group matches.
GroupsByCode_unfiltered(gs, code) == DOMAIN gs

\* db.query(Group).filter(Group.invite_code == code): ids of matching groups.
GroupsByCode(gs, code) == {g \in DOMAIN gs : gs[g].invite_code = code}

\* The request/response record kept for the last answered request.
\* op and group name the handler and the group it addressed, status is the HTTP
\* status, detail the ids an error names or a listing returns, calls the
\* invite codes generated,
\* promoted the user promote_oldest_member returned (0 for none), task the
\* task whose assignments were replaced (0 for none), user the user whose
\* membership row the request removed (0 for none).
Resp(op, g, status) ==
    [op |-> op, group |-> g, status |-> status, detail |-> {}, calls |-> 0,
     promoted |-> 0, task |-> 0, user |-> 0]

NoResp == Resp("none", 0, 0)

\* A worker with no request in flight.
Idle == [pc |-> "idle", user |-> 0, group |-> 0, task |-> 0, code |-> 0,
         calls |-> 0, explicit |-> FALSE, ids |-> <<>>, members |-> {},
         target |-> 0, oldest |-> 0, last |-> FALSE]

\* The insert with the role of the creator's row, whatever role is asked for.
MemberRow_always_admin(u, g, t, role) ==
    [user_id |-> u, group_id |-> g, joined_at |-> t, role |-> "admin"]

\* insert(group_members).values(user_id, group_id, joined_at, role)
MemberRow(u, g, t, role) ==
    [user_id |-> u, group_id |-> g, joined_at |-> t, role |-> role]

\* ----------------------------------------------- promote_oldest_member
\* The query ordered by joined_at DESC: the newest member comes first.
OldestTies_desc(gm, g, exclude) ==
    {m.user_id : m \in {x \in {r \in gm : r.group_id = g} :
        /\ x.user_id /= exclude
        /\ \A y \in {r \in gm : r.group_id = g} :
              y.user_id /= exclude => x.joined_at >= y.joined_at}}

\* SELECT user_id ... WHERE group_id = g AND user_id != exclude
\* ORDER BY joined_at ASC LIMIT 1: the rows the store may return first. Rows
\* with equal joined_at have no defined order, so any of them may be first.
OldestTies(gm, g, exclude) ==
    {m.user_id : m \in {x \in MembersOf(gm, g) :
        /\ x.user_id /= exclude
        /\ \A y \in MembersOf(gm, g) :
              y.user_id /= exclude => x.joined_at <= y.joined_at}}

\* The UPDATE matching no row.
SetAdmin_no_row(gm, g, o) == gm

\* UPDATE group_members SET role = 'admin' WHERE group_id = g AND user_id = o
SetAdmin(gm, g, o) ==
    {IF m.group_id = g /\ m.user_id = o
     THEN [m EXCEPT !.role = "admin"] ELSE m : m \in gm}

\* The promotion without the update of the group row.
SetCreator_skipped(gs, g, o) == gs

\* group.created_by = oldest, when the group row is found
SetCreator(gs, g, o) ==
    IF g \in DOMAIN gs THEN [gs EXCEPT ![g].created_by = o] ELSE gs

\* DELETE FROM group_members WHERE group_id = g AND user_id = u
DeleteMember(gm, g, u) == {m \in gm : ~(m.group_id = g /\ m.user_id = u)}

\* --------------------------------------------------- db.delete(group)
\* Group.tasks cascades "all, delete-orphan" to the group's tasks, Task.completions
\* cascades likewise to their completions, the rows of the secondary tables
\* (task_assignments, group_members) go with their parent.
TasksOf(ts, g) == {t \in DOMAIN ts : ts[t].group_id = g}

GroupsAfterDelete(gs, g) == [x \in DOMAIN gs \ {g} |-> gs[x]]

MembersAfterDelete(gm, g) == {m \in gm : m.group_id /= g}

TasksAfterDelete(ts, g) == [t \in DOMAIN ts \ TasksOf(ts, g) |-> ts[t]]

AssignmentsAfterDelete(ta, ts, g) == {a \in ta : a.task_id \notin TasksOf(ts, g)}

\* Task.completions without its delete cascade.
CompletionsAfterDelete_no_cascade(cs, ts, g) == cs

CompletionsAfterDelete(cs, ts, g) == {c \in cs : c.task_id \notin TasksOf(ts, g)}

\* --------------------------------------------------------------------- Init
Init ==
    /\ groups = <<>>
    /\ next_group_id = 1
    /\ group_members = {}
    /\ tasks = <<>>
    /\ next_task_id = 1
    /\ task_assignments = {}
    /\ completions = {}
    /\ next_completion_id = 1
    /\ now = 0
    /\ resp = NoResp
    /\ req = [w \in Workers |-> Idle]

\* ------------------------------------------------------------ create_group
\* The retry loop with range(max_attempts + 1).
InviteCodeLoop_one_more(gs) ==
    {[calls |-> x[1], code |-> x[2][x[1]], found |-> GroupsByCode(gs, x[2][x[1]]) = {}] :
        x \in {y \in UNION {{<<k, cs>> : cs \in [1..k -> Codes]} : k \in 1..(max_attempts + 1)} :
                /\ \A i \in 1..(y[1] - 1) : GroupsByCode(gs, y[2][i]) /= {}
                /\ GroupsByCode(gs, y[2][y[1]]) /= {} => y[1] = max_attempts + 1}}

\* The retry loop raising on the last attempt before it looks at the draw.
InviteCodeLoop_last_raises(gs) ==
    {[calls |-> x[1], code |-> x[2][x[1]],
      found |-> GroupsByCode(gs, x[2][x[1]]) = {} /\ x[1] < max_attempts] :
        x \in {y \in UNION {{<<k, cs>> : cs \in [1..k -> Codes]} : k \in 1..max_attempts} :
                /\ \A i \in 1..(y[1] - 1) : GroupsByCode(gs, y[2][i]) /= {}
                /\ GroupsByCode(gs, y[2][y[1]]) /= {} => y[1] = max_attempts}}

\* The retry loop: it draws cs[1..k], every draw but the last colliding with an
\* existing invite code, and leaves with the first unused draw (found), or raises
\* on the max_attempts-th collision.
InviteCodeLoop(gs) ==
    {[calls |-> x[1], code |-> x[2][x[1]], found |-> GroupsByCode(gs, x[2][x[1]]) = {}] :
        x \in {y \in UNION {{<<k, cs>> : cs \in [1..k -> Codes]} : k \in 1..max_attempts} :
                /\ \A i \in 1..(y[1] - 1) : GroupsByCode(gs, y[2][i]) /= {}
                /\ GroupsByCode(gs, y[2][y[1]]) /= {} => y[1] = max_attempts}}

create_group(u) ==
    /\ next_group_id <= MaxGroups
    /\ \E loop \in InviteCodeLoop(groups) :
        IF ~loop.found
        THEN /\ resp' = [Resp("create_group", 0, 500) EXCEPT !.calls = loop.calls]
             /\ UNCHANGED store
        ELSE \E t \in utcnow :
             /\ groups' = (next_group_id :>
                              [invite_code |-> loop.code, created_by |-> u]) @@ groups
             /\ next_group_id' = next_group_id + 1
             /\ group_members' = group_members \cup
                    {MemberRow(u, next_group_id, t, "admin")}
             /\ now' = t
             /\ resp' = [Resp("create_group", next_group_id, 201)
                           EXCEPT !.calls = loop.calls]
             /\ UNCHANGED <<tasks, next_task_id, task_assignments, completions,
                            next_completion_id>>
    /\ UNCHANGED req

\* create_group, one step up to each commit and one for the loop before the
\* first: the loop reads the committed invite codes and keeps the draw that
\* no group has.
InFlight(pcs) == Cardinality({w \in Workers : req[w].pc \in pcs})

create_group_generate(w, u) ==
    /\ req[w].pc = "idle"
    /\ next_group_id + InFlight({"create_group_insert"}) <= MaxGroups
    /\ \E loop \in InviteCodeLoop(groups) :
        IF ~loop.found
        THEN /\ resp' = [Resp("create_group", 0, 500) EXCEPT !.calls = loop.calls]
             /\ UNCHANGED req
        ELSE /\ req' = [req EXCEPT ![w] =
                           [Idle EXCEPT !.pc = "create_group_insert", !.user = u,
                                        !.code = loop.code, !.calls = loop.calls]]
             /\ UNCHANGED resp
    /\ UNCHANGED store

\* The unique index on groups.invite_code that lets every code in.
InviteCodeTaken_no_index(gs, code) == FALSE

\* The unique index on groups.invite_code: a row with a code that a committed
\* row holds is refused.
InviteCodeTaken(gs, code) == \E g \in DOMAIN gs : gs[g].invite_code = code

\* db.add(new_group); db.commit(). When the index refuses the row the
\* IntegrityError is not caught: the request ends with 500, the id drawn for
\* the row is spent.
create_group_first_commit(w) ==
    /\ req[w].pc = "create_group_insert"
    /\ IF InviteCodeTaken(groups, req[w].code)
       THEN /\ resp' = [Resp("create_group", 0, 500) EXCEPT !.calls = req[w].calls]
            /\ next_group_id' = next_group_id + 1
            /\ req' = [req EXCEPT ![w] = Idle]
            /\ UNCHANGED groups
       ELSE /\ groups' = (next_group_id :>
                             [invite_code |-> req[w].code,
                              created_by |-> req[w].user]) @@ groups
            /\ next_group_id' = next_group_id + 1
            /\ req' = [req EXCEPT ![w] =
                          [Idle EXCEPT !.pc = "create_group_member",
                                       !.user = req[w].user,
                                       !.group = next_group_id,
                                       !.calls = req[w].calls]]
            /\ UNCHANGED resp
    /\ UNCHANGED <<group_members, tasks, next_task_id, task_assignments,
                   completions, next_completion_id, now>>

\* The insert of the creator's row and the second db.commit(). The store
\* refuses the row when the group row is gone (foreign key) or the pair is
\* already there (primary key).
create_group_second_commit(w) ==
    /\ req[w].pc = "create_group_member"
    /\ IF \/ req[w].group \notin DOMAIN groups
          \/ IsMember(group_members, req[w].group, req[w].user)
       THEN /\ resp' = [Resp("create_group", req[w].group, 500)
                          EXCEPT !.calls = req[w].calls]
            /\ UNCHANGED store
       ELSE \E t \in utcnow :
            /\ group_members' = group_members \cup
                   {MemberRow(req[w].user, req[w].group, t, "admin")}
            /\ now' = t
            /\ resp' = [Resp("create_group", req[w].group, 201)
                          EXCEPT !.calls = req[w].calls]
            /\ UNCHANGED <<groups, next_group_id, tasks, next_task_id,
                           task_assignments, completions, next_completion_id>>
    /\ req' = [req EXCEPT ![w] = Idle]

\* -------------------------------------------------------------- join_group
join_group(u, code) ==
    /\ IF GroupsByCode(groups, code) = {}
       THEN /\ resp' = Resp("join_group", 0, 404)
            /\ UNCHANGED store
       ELSE LET g == CHOOSE x \in GroupsByCode(groups, code) : TRUE IN
            IF IsMember(group_members, g, u)
            THEN /\ resp' = Resp("join_group", g, 400)
                 /\ UNCHANGED store
            ELSE \E t \in utcnow :
                 /\ group_members' = group_members \cup
                        {MemberRow(u, g, t, "member")}
                 /\ now' = t
                 /\ resp' = Resp("join_group", g, 200)
                 /\ UNCHANGED <<groups, next_group_id, tasks, next_task_id,
                                task_assignments, completions, next_completion_id>>
    /\ UNCHANGED req

\* The lookup of the group row without the lookup of the membership row.
verify_group_membership_group_only(gs, gm, g, u) ==
    IF g \notin DOMAIN gs THEN 404 ELSE 0

\* -------------------------------------------------- verify_group_membership
\* 0 when the group exists and u is a member, else the status raised.
verify_group_membership(gs, gm, g, u) ==
    IF g \notin DOMAIN gs THEN 404
    ELSE IF ~IsMember(gm, g, u) THEN 403
    ELSE 0

\* --------------------------------------------------------------- get_group
get_group(u, g) ==
    /\ resp' = Resp("get_group", g,
                    IF verify_group_membership(groups, group_members, g, u) = 0
                    THEN 200
                    ELSE verify_group_membership(groups, group_members, g, u))
    /\ UNCHANGED <<store, req>>

\* ------------------------------------------------------ list_group_members
list_group_members(u, g) ==
    /\ resp' = IF verify_group_membership(groups, group_members, g, u) /= 0
               THEN Resp("list_group_members", g,
                         verify_group_membership(groups, group_members, g, u))
               ELSE [Resp("list_group_members", g, 200)
                       EXCEPT !.detail = MemberIds(group_members, g)]
    /\ UNCHANGED <<store, req>>

\* db.delete(group); db.commit()
DeleteGroup(g) ==
    /\ groups' = GroupsAfterDelete(groups, g)
    /\ group_members' = MembersAfterDelete(group_members, g)
    /\ tasks' = TasksAfterDelete(tasks, g)
    /\ task_assignments' = AssignmentsAfterDelete(task_assignments, tasks, g)
    /\ completions' = CompletionsAfterDelete(completions, tasks, g)
    /\ UNCHANGED <<next_group_id, next_task_id, next_completion_id, now>>

\* The DELETE of the departing row run before the promotion.
DepartureWrites_delete_first(gm, gs, g, o, gone) ==
    <<[members |-> DeleteMember(gm, g, gone), groups |-> gs],
      [members |-> SetAdmin(DeleteMember(gm, g, gone), g, o), groups |-> gs],
      [members |-> SetAdmin(DeleteMember(gm, g, gone), g, o),
       groups |-> SetCreator(gs, g, o)]>>

\* What the session sees after each write of a departure with a promotion, in
\* the order the code runs them: the UPDATE of the role and group.created_by
\* in promote_oldest_member, then the DELETE of the row of `gone`. db.commit()
\* makes the last of them the committed state.
DepartureWrites(gm, gs, g, o, gone) ==
    <<[members |-> SetAdmin(gm, g, o), groups |-> gs],
      [members |-> SetAdmin(gm, g, o), groups |-> SetCreator(gs, g, o)],
      [members |-> DeleteMember(SetAdmin(gm, g, o), g, gone),
       groups |-> SetCreator(gs, g, o)]>>

\* promote_oldest_member(g, u) when promote holds, then the DELETE of the row
\* of `gone`, committed together; r is the response without the promoted user.
PromoteAndDelete(g, u, gone, promote, r) ==
    /\ IF promote /\ OldestTies(group_members, g, u) /= {}
       THEN \E o \in OldestTies(group_members, g, u) :
            LET w == DepartureWrites(group_members, groups, g, o, gone) IN
            /\ group_members' = w[Len(w)].members
            /\ groups' = w[Len(w)].groups
            /\ resp' = [r EXCEPT !.promoted = o, !.user = gone]
       ELSE /\ group_members' = DeleteMember(group_members, g, gone)
            /\ resp' = [r EXCEPT !.user = gone]
            /\ UNCHANGED groups
    /\ UNCHANGED <<next_group_id, tasks, next_task_id, task_assignments,
                   completions, next_completion_id, now>>

\* ------------------------------------------------------------- leave_group
leave_group(u, g) ==
    /\ IF verify_group_membership(groups, group_members, g, u) /= 0
       THEN /\ resp' = Resp("leave_group", g,
                            verify_group_membership(groups, group_members, g, u))
            /\ UNCHANGED store
       ELSE IF get_member_count(group_members, g) = 1
       THEN /\ resp' = [Resp("leave_group", g, 204) EXCEPT !.user = u]
            /\ DeleteGroup(g)
       ELSE PromoteAndDelete(g, u, u, RoleOf(group_members, g, u) = "admin",
                             Resp("leave_group", g, 204))
    /\ UNCHANGED req

\* ----------------------------------------------------------- remove_member
remove_member(u, g, target) ==
    /\ IF verify_group_membership(groups, group_members, g, u) /= 0
       THEN /\ resp' = Resp("remove_member", g,
                            verify_group_membership(groups, group_members, g, u))
            /\ UNCHANGED store
       ELSE IF RoleOf(group_members, g, u) /= "admin"
       THEN /\ resp' = Resp("remove_member", g, 403)
            /\ UNCHANGED store
       ELSE IF ~IsMember(group_members, g, target)
       THEN /\ resp' = Resp("remove_member", g, 404)
            /\ UNCHANGED store
       ELSE IF target = u /\ get_member_count(group_members, g) = 1
       THEN /\ resp' = [Resp("remove_member", g, 204) EXCEPT !.user = u]
            /\ DeleteGroup(g)
       ELSE PromoteAndDelete(g, u, target, target = u,
                             Resp("remove_member", g, 204))
    /\ UNCHANGED req

\* leave_group and remove_member, one step for the queries and one for the
\* writes up to the commit. The queries are verify_group_membership, the role
\* and membership selects, get_member_count and the select of
\* promote_oldest_member; target is the user whose row goes, last tells that
\* the count was 1, oldest is the user the select returned (0 for none).
DepartureQueries(w, op, u, g, target, promote) ==
    IF get_member_count(group_members, g) = 1 /\ target = u
    THEN req' = [req EXCEPT ![w] =
                    [Idle EXCEPT !.pc = op, !.user = u, !.group = g,
                                 !.target = target, !.last = TRUE]]
    ELSE IF promote /\ OldestTies(group_members, g, u) /= {}
    THEN \E o \in OldestTies(group_members, g, u) :
            req' = [req EXCEPT ![w] =
                       [Idle EXCEPT !.pc = op, !.user = u, !.group = g,
                                    !.target = target, !.oldest = o]]
    ELSE req' = [req EXCEPT ![w] =
                    [Idle EXCEPT !.pc = op, !.user = u, !.group = g,
                                 !.target = target]]

leave_group_queries(w, u, g) ==
    /\ req[w].pc = "idle"
    /\ IF verify_group_membership(groups, group_members, g, u) /= 0
       THEN /\ resp' = Resp("leave_group", g,
                            verify_group_membership(groups, group_members, g, u))
            /\ UNCHANGED req
       ELSE /\ DepartureQueries(w, "leave_group", u, g, u,
                                RoleOf(group_members, g, u) = "admin")
            /\ UNCHANGED resp
    /\ UNCHANGED store

remove_member_queries(w, u, g, target) ==
    /\ req[w].pc = "idle"
    /\ IF verify_group_membership(groups, group_members, g, u) /= 0
       THEN /\ resp' = Resp("remove_member", g,
                            verify_group_membership(groups, group_members, g, u))
            /\ UNCHANGED req
       ELSE IF RoleOf(group_members, g, u) /= "admin"
       THEN /\ resp' = Resp("remove_member", g, 403)
            /\ UNCHANGED req
       ELSE IF ~IsMember(group_members, g, target)
       THEN /\ resp' = Resp("remove_member", g, 404)
            /\ UNCHANGED req
       ELSE /\ DepartureQueries(w, "remove_member", u, g, target, target = u)
            /\ UNCHANGED resp
    /\ UNCHANGED store

\* The writes and db.commit(): db.delete(group) when the count was 1, else the
\* UPDATE of the role of the selected user (which matches the rows there are
\* now), group.created_by when the group row is found, and the DELETE of the
\* target's row.
departure_commit(w) ==
    /\ req[w].pc \in {"leave_group", "remove_member"}
    /\ IF req[w].last
       THEN /\ resp' = [Resp(req[w].pc, req[w].group, 204)
                          EXCEPT !.user = req[w].target]
            /\ DeleteGroup(req[w].group)
       ELSE /\ IF req[w].oldest /= 0
               THEN LET v == DepartureWrites(group_members, groups, req[w].group,
                                             req[w].oldest, req[w].target) IN
                    /\ group_members' = v[Len(v)].members
                    /\ groups' = v[Len(v)].groups
               ELSE /\ group_members' =
                           DeleteMember(group_members, req[w].group, req[w].target)
                    /\ UNCHANGED groups
            /\ resp' = [Resp(req[w].pc, req[w].group, 204)
                          EXCEPT !.promoted = req[w].oldest,
                                 !.user = req[w].target]
            /\ UNCHANGED <<next_group_id, tasks, next_task_id, task_assignments,
                           completions, next_completion_id, now>>
    /\ req' = [req EXCEPT ![w] = Idle]

TaskIds == 1..MaxTasks

IdLists == SeqsUpTo(Users, MaxList)

ConcLists == SeqsUpTo(Users, MaxConcList)

\* ------------------------------------------------ get_current_group_member
\* The dependency without its check of the group row.
get_current_group_member_no_group_check(gs, gm, g, u) ==
    IF u \notin MemberIds(gm, g) THEN 403 ELSE 0

\* 0 when the group exists and u is in group.members, else the status raised.
get_current_group_member(gs, gm, g, u) ==
    IF g \notin DOMAIN gs THEN 404
    ELSE IF u \notin MemberIds(gm, g) THEN 403
    ELSE 0

\* db.query(Task).filter(Task.id == t, Task.group_id == g).first()
TaskFound(ts, g, t) == t \in DOMAIN ts /\ ts[t].group_id = g

\* The branch for a missing list never taken: nothing is assigned by default.
Assigned_list_only(explicit, ids, members) == Range(ids)

\* The ids a request assigns: the supplied list, or every member of the group
\* when assigned_user_ids is None.
Assigned(explicit, ids, members) == IF explicit THEN Range(ids) ELSE members

\* The validation that finds nothing.
invalid_ids_none(assigned, members) == {}

\* invalid_ids = set(assigned_user_ids) - group_member_ids
invalid_ids(assigned, members) == assigned \ members

\* task_assignments.insert() for each id of the list
NewAssignments(t, assigned) == {[task_id |-> t, user_id |-> a] : a \in assigned}

\* The delete that matches no row.
DeleteAssignments_none(ta, t) == ta

\* delete(task_assignments).where(task_assignments.c.task_id == t)
DeleteAssignments(ta, t) == {a \in ta : a.task_id /= t}

\* ------------------------------------------------------------- create_task
\* members is the group.members collection the handler validates against.
\* Every request is sent with the same name, 1, which stands for the task's
\* name, emoji and category.
CreateTaskBody(g, explicit, ids, members) ==
    IF invalid_ids(Assigned(explicit, ids, members), members) /= {}
    THEN /\ resp' = [Resp("create_task", g, 400)
                       EXCEPT !.detail =
                           invalid_ids(Assigned(explicit, ids, members), members)]
         /\ UNCHANGED store
    ELSE IF g \notin DOMAIN groups \/ (explicit /\ HasDuplicates(ids))
    THEN \* the task row of a group that is gone violates the foreign key, the
         \* second insert of a (task_id, user_id) pair the primary key: the
         \* transaction is rolled back, the id drawn for the task is spent
         /\ resp' = Resp("create_task", g, 500)
         /\ next_task_id' = next_task_id + 1
         /\ UNCHANGED <<groups, next_group_id, group_members, tasks,
                        task_assignments, completions, next_completion_id, now>>
    ELSE /\ resp' = Resp("create_task", g, 201)
         /\ tasks' = (next_task_id :>
                         [group_id |-> g, name |-> 1, is_active |-> TRUE]) @@ tasks
         /\ next_task_id' = next_task_id + 1
         /\ task_assignments' = task_assignments \cup
                NewAssignments(next_task_id, Assigned(explicit, ids, members))
         /\ UNCHANGED <<groups, next_group_id, group_members, completions,
                        next_completion_id, now>>

create_task(u, g, explicit, ids) ==
    /\ next_task_id <= MaxTasks
    /\ explicit \/ ids = <<>>
    /\ IF get_current_group_member(groups, group_members, g, u) /= 0
       THEN /\ resp' = Resp("create_task", g, get_current_group_member(groups, group_members, g, u))
            /\ UNCHANGED store
       ELSE CreateTaskBody(g, explicit, ids, MemberIds(group_members, g))
    /\ UNCHANGED req

\* ------------------------------------------------- update_task_assignments
\* The handler without its delete: an id that is already assigned to the task
\* is refused by the primary key.
UpdateAssignmentsBody_insert_only(g, t, ids, members) ==
    IF ~TaskFound(tasks, g, t)
    THEN /\ resp' = Resp("update_task_assignments", g, 404)
         /\ UNCHANGED store
    ELSE IF invalid_ids(Range(ids), members) /= {}
    THEN /\ resp' = [Resp("update_task_assignments", g, 400)
                       EXCEPT !.detail = invalid_ids(Range(ids), members)]
         /\ UNCHANGED store
    ELSE IF HasDuplicates(ids) \/ NewAssignments(t, Range(ids)) \cap task_assignments /= {}
    THEN /\ resp' = Resp("update_task_assignments", g, 500)
         /\ UNCHANGED store
    ELSE /\ resp' = [Resp("update_task_assignments", g, 200) EXCEPT !.task = t]
         /\ task_assignments' = task_assignments \cup NewAssignments(t, Range(ids))
         /\ UNCHANGED <<groups, next_group_id, group_members, tasks, next_task_id,
                        completions, next_completion_id, now>>

\* The handler with every statement committed on its own: when an insert is
\* refused, the delete and the inserts before it stay.
UpdateAssignmentsBody_autocommit(g, t, ids, members) ==
    IF ~TaskFound(tasks, g, t)
    THEN /\ resp' = Resp("update_task_assignments", g, 404)
         /\ UNCHANGED store
    ELSE IF invalid_ids(Range(ids), members) /= {}
    THEN /\ resp' = [Resp("update_task_assignments", g, 400)
                       EXCEPT !.detail = invalid_ids(Range(ids), members)]
         /\ UNCHANGED store
    ELSE /\ resp' = IF HasDuplicates(ids)
                    THEN Resp("update_task_assignments", g, 500)
                    ELSE [Resp("update_task_assignments", g, 200) EXCEPT !.task = t]
         /\ task_assignments' = DeleteAssignments(task_assignments, t) \cup
                NewAssignments(t, Range(ids))
         /\ UNCHANGED <<groups, next_group_id, group_members, tasks, next_task_id,
                        completions, next_completion_id, now>>

UpdateAssignmentsBody(g, t, ids, members) ==
    IF ~TaskFound(tasks, g, t)
    THEN /\ resp' = Resp("update_task_assignments", g, 404)
         /\ UNCHANGED store
    ELSE IF invalid_ids(Range(ids), members) /= {}
    THEN /\ resp' = [Resp("update_task_assignments", g, 400)
                       EXCEPT !.detail = invalid_ids(Range(ids), members)]
         /\ UNCHANGED store
    ELSE IF HasDuplicates(ids)
    THEN /\ resp' = Resp("update_task_assignments", g, 500)
         /\ UNCHANGED store
    ELSE /\ resp' = [Resp("update_task_assignments", g, 200) EXCEPT !.task = t]
         /\ task_assignments' = DeleteAssignments(task_assignments, t) \cup
                NewAssignments(t, Range(ids))
         /\ UNCHANGED <<groups, next_group_id, group_members, tasks, next_task_id,
                        completions, next_completion_id, now>>

update_task_assignments(u, g, t, ids) ==
    /\ IF get_current_group_member(groups, group_members, g, u) /= 0
       THEN /\ resp' = Resp("update_task_assignments", g, get_current_group_member(groups, group_members, g, u))
            /\ UNCHANGED store
       ELSE UpdateAssignmentsBody(g, t, ids, MemberIds(group_members, g))
    /\ UNCHANGED req

\* create_task, one step up to the commit: first the dependency
\* get_current_group_member, which loads group.members, then the handler's body
\* on that loaded collection.
create_task_dependency(w, u, g, explicit, ids) ==
    /\ req[w].pc = "idle"
    /\ next_task_id + InFlight({"create_task_body"}) <= MaxTasks
    /\ explicit \/ ids = <<>>
    /\ IF get_current_group_member(groups, group_members, g, u) /= 0
       THEN /\ resp' = Resp("create_task", g,
                            get_current_group_member(groups, group_members, g, u))
            /\ UNCHANGED req
       ELSE /\ req' = [req EXCEPT ![w] =
                          [Idle EXCEPT !.pc = "create_task_body",
                                       !.group = g, !.explicit = explicit,
                                       !.ids = ids,
                                       !.members = MemberIds(group_members, g)]]
            /\ UNCHANGED resp
    /\ UNCHANGED store

create_task_commit(w) ==
    /\ req[w].pc = "create_task_body"
    /\ CreateTaskBody(req[w].group, req[w].explicit, req[w].ids, req[w].members)
    /\ req' = [req EXCEPT ![w] = Idle]

\* update_task_assignments, likewise.
update_task_assignments_dependency(w, u, g, t, ids) ==
    /\ req[w].pc = "idle"
    /\ IF get_current_group_member(groups, group_members, g, u) /= 0
       THEN /\ resp' = Resp("update_task_assignments", g,
                            get_current_group_member(groups, group_members, g, u))
            /\ UNCHANGED req
       ELSE /\ req' = [req EXCEPT ![w] =
                          [Idle EXCEPT !.pc = "update_task_assignments_body",
                                       !.group = g, !.task = t,
                                       !.ids = ids,
                                       !.members = MemberIds(group_members, g)]]
            /\ UNCHANGED resp
    /\ UNCHANGED store

update_task_assignments_commit(w) ==
    /\ req[w].pc = "update_task_assignments_body"
    /\ UpdateAssignmentsBody(req[w].group, req[w].task, req[w].ids,
                             req[w].members)
    /\ req' = [req EXCEPT ![w] = Idle]

\* -------------------------------------------------------------- list_tasks
\* The query that filters on is_active whatever the flag.
TasksListed_active_only(ts, g, include_inactive) ==
    {t \in DOMAIN ts : ts[t].group_id = g /\ ts[t].is_active}

\* db.query(Task).filter(Task.group_id == g), with the filter on is_active
\* unless include_inactive: the ids of the tasks returned.
TasksListed(ts, g, include_inactive) ==
    {t \in DOMAIN ts : ts[t].group_id = g /\ (include_inactive \/ ts[t].is_active)}

list_tasks(u, g, include_inactive) ==
    /\ resp' = IF get_current_group_member(groups, group_members, g, u) /= 0
               THEN Resp("list_tasks", g,
                         get_current_group_member(groups, group_members, g, u))
               ELSE [Resp("list_tasks", g, 200)
                       EXCEPT !.detail = TasksListed(tasks, g, include_inactive)]
    /\ UNCHANGED <<store, req>>

\* ------------------------------------------------------------- update_task
\* A TaskUpdate that also carries is_active = true.
TaskUpdate_with_is_active(task, name) ==
    [task EXCEPT !.name = name, !.is_active = TRUE]

\* The task row after setattr(task, field, value) for the fields of a
\* TaskUpdate: name, emoji and category are its only fields.
TaskUpdate(task, name) == [task EXCEPT !.name = name]

update_task(u, g, t, name) ==
    /\ IF get_current_group_member(groups, group_members, g, u) /= 0
       THEN /\ resp' = Resp("update_task", g,
                            get_current_group_member(groups, group_members, g, u))
            /\ UNCHANGED store
       ELSE IF ~TaskFound(tasks, g, t)
       THEN /\ resp' = Resp("update_task", g, 404)
            /\ UNCHANGED store
       ELSE /\ resp' = [Resp("update_task", g, 200) EXCEPT !.task = t]
            /\ tasks' = [tasks EXCEPT ![t] = TaskUpdate(tasks[t], name)]
            /\ UNCHANGED <<groups, next_group_id, group_members, next_task_id,
                           task_assignments, completions, next_completion_id, now>>
    /\ UNCHANGED req

\* ------------------------------------------------------------- delete_task
\* role = select(group_members.c.role)...scalar(); 403 unless it is "admin"
verify_admin_role(gm, g, u) == IF RoleOf(gm, g, u) /= "admin" THEN 403 ELSE 0

delete_task(u, g, t) ==
    /\ IF get_current_group_member(groups, group_members, g, u) /= 0
       THEN /\ resp' = Resp("delete_task", g, get_current_group_member(groups, group_members, g, u))
            /\ UNCHANGED store
       ELSE IF verify_admin_role(group_members, g, u) /= 0
       THEN /\ resp' = Resp("delete_task", g, 403)
            /\ UNCHANGED store
       ELSE IF ~TaskFound(tasks, g, t)
       THEN /\ resp' = Resp("delete_task", g, 404)
            /\ UNCHANGED store
       ELSE /\ resp' = Resp("delete_task", g, 204)
            /\ tasks' = [tasks EXCEPT ![t].is_active = FALSE]
            /\ UNCHANGED <<groups, next_group_id, group_members, next_task_id,
                           task_assignments, completions, next_completion_id, now>>
    /\ UNCHANGED req

\* ------------------------------------------------------- create_completion
\* A member of the group records that they completed a task of the group;
\* the row copies the task's group id.
create_completion(u, g, t) ==
    /\ next_completion_id <= MaxCompletions
    /\ IF get_current_group_member(groups, group_members, g, u) /= 0
       THEN /\ resp' = Resp("create_completion", g, get_current_group_member(groups, group_members, g, u))
            /\ UNCHANGED store
       ELSE IF ~TaskFound(tasks, g, t)
       THEN /\ resp' = Resp("create_completion", g, 404)
            /\ UNCHANGED store
       ELSE /\ resp' = Resp("create_completion", g, 201)
            /\ completions' = completions \cup
                   {[id |-> next_completion_id, task_id |-> t, user_id |-> u,
                     group_id |-> tasks[t].group_id]}
            /\ next_completion_id' = next_completion_id + 1
            /\ UNCHANGED <<groups, next_group_id, group_members, tasks,
                           next_task_id, task_assignments, now>>
    /\ UNCHANGED req

\* ---------------------------------------------------------- specifications
\* The handlers of the groups router.
NextGroups(G) ==
    \/ \E u \in Users, c \in Codes : join_group(u, c)
    \/ \E u \in Users, g \in G : get_group(u, g)
    \/ \E u \in Users, g \in G : leave_group(u, g)
    \/ \E u \in Users, g \in G, t \in Users : remove_member(u, g, t)

\* The handlers of the tasks router (and the recording of a completion).
NextTaskOps(G, T) ==
    \/ \E u \in Users, g \in G :
           next_task_id \in T /\ create_task(u, g, FALSE, <<>>)
    \/ \E u \in Users, g \in G, ids \in IdLists :
           next_task_id \in T /\ create_task(u, g, TRUE, ids)
    \/ \E u \in Users, g \in G, t \in T, ids \in IdLists :
           update_task_assignments(u, g, t, ids)
    \/ \E u \in Users, g \in G, t \in T : delete_task(u, g, t)
    \/ \E u \in Users, g \in G, t \in T : create_completion(u, g, t)

\* Requests to the groups router, one at a time.
Next ==
    \/ \E u \in Users : create_group(u)
    \/ NextGroups(1..MaxGroups)

Spec == Init /\ [][Next]_vars

\* Requests to both routers, one at a time, with at most MaxTaskGroups groups
\* and MaxLifecycleTasks tasks ever created.
NextTasks ==
    \/ \E u \in Users : next_group_id <= MaxTaskGroups /\ create_group(u)
    \/ NextGroups(1..MaxTaskGroups)
    \/ NextTaskOps(1..MaxTaskGroups, 1..MaxLifecycleTasks)

SpecTasks == Init /\ [][NextTasks]_vars

\* The assignment handlers on up to MaxTasks tasks of one group that members
\* join and never leave.
NextAssign ==
    \/ \E u \in Users : next_group_id <= MaxTaskGroups /\ create_group(u)
    \/ \E u \in Users, c \in Codes : join_group(u, c)
    \/ \E u \in Users, g \in 1..MaxTaskGroups :
           create_task(u, g, FALSE, <<>>)
    \/ \E u \in Users, g \in 1..MaxTaskGroups, ids \in IdLists :
           create_task(u, g, TRUE, ids)
    \/ \E u \in Users, g \in 1..MaxTaskGroups, t \in TaskIds, ids \in IdLists :
           update_task_assignments(u, g, t, ids)

SpecAssign == Init /\ [][NextAssign]_vars

\* Every handler of both routers, one request at a time, on one group and
\* its first task, with the lists of ConcLists.
NextAccess ==
    \/ \E u \in Users : next_group_id <= MaxTaskGroups /\ create_group(u)
    \/ NextGroups(1..MaxTaskGroups)
    \/ \E u \in Users, g \in 1..MaxTaskGroups : list_group_members(u, g)
    \/ \E u \in Users, g \in 1..MaxTaskGroups :
           next_task_id <= MaxLifecycleTasks /\ create_task(u, g, FALSE, <<>>)
    \/ \E u \in Users, g \in 1..MaxTaskGroups, ids \in ConcLists :
           next_task_id <= MaxLifecycleTasks /\ create_task(u, g, TRUE, ids)
    \/ \E u \in Users, g \in 1..MaxTaskGroups, inc \in BOOLEAN : list_tasks(u, g, inc)
    \/ \E u \in Users, g \in 1..MaxTaskGroups, t \in 1..MaxLifecycleTasks,
          n \in Names : update_task(u, g, t, n)
    \/ \E u \in Users, g \in 1..MaxTaskGroups, t \in 1..MaxLifecycleTasks,
          ids \in ConcLists : update_task_assignments(u, g, t, ids)
    \/ \E u \in Users, g \in 1..MaxTaskGroups, t \in 1..MaxLifecycleTasks :
           delete_task(u, g, t)
    \/ \E u \in Users, g \in 1..MaxTaskGroups, t \in 1..MaxLifecycleTasks :
           create_completion(u, g, t)

SpecAccess == Init /\ [][NextAccess]_vars

\* Workers on the groups router, with at most MaxConcGroups groups ever
\* created and one create_group at a time: create_group commits twice, every
\* other handler commits once.
NextConcGroups ==
    \/ \E w \in Workers, u \in Users :
           /\ next_group_id <= MaxConcGroups
           /\ InFlight({"create_group_insert", "create_group_member"}) = 0
           /\ create_group_generate(w, u)
    \/ \E w \in Workers : create_group_first_commit(w)
    \/ \E w \in Workers : create_group_second_commit(w)
    \/ NextGroups(1..MaxConcGroups)

SpecConcGroups == Init /\ [][NextConcGroups]_vars

\* Workers that create groups side by side, while the creators leave them.
NextConcCodes ==
    \/ \E w \in Workers, u \in Users : create_group_generate(w, u)
    \/ \E w \in Workers : create_group_first_commit(w)
    \/ \E w \in Workers : create_group_second_commit(w)
    \/ \E u \in Users, g \in 1..MaxGroups : leave_group(u, g)

SpecConcCodes == Init /\ [][NextConcCodes]_vars

\* Workers that run leave_group and remove_member side by side on a group
\* that users join, with at most MaxConcGroups groups ever created.
NextConcLeave ==
    \/ \E u \in Users : next_group_id <= MaxConcGroups /\ create_group(u)
    \/ \E u \in Users, c \in Codes : join_group(u, c)
    \/ \E w \in Workers, u \in Users, g \in 1..MaxConcGroups :
           leave_group_queries(w, u, g)
    \/ \E w \in Workers, u \in Users, g \in 1..MaxConcGroups, t \in Users :
           remove_member_queries(w, u, g, t)
    \/ \E w \in Workers : departure_commit(w)

SpecConcLeave == Init /\ [][NextConcLeave]_vars

\* Both routers, with at most MaxTaskGroups groups and MaxLifecycleTasks tasks
\* ever created: the workers
\* of TaskWorkers run the task handlers, which read the membership in their
\* dependency and commit later; the other handlers commit in between.
NextConcTasks ==
    \/ \E u \in Users : next_group_id <= MaxTaskGroups /\ create_group(u)
    \/ \E u \in Users, c \in Codes : join_group(u, c)
    \/ \E u \in Users, g \in 1..MaxTaskGroups : leave_group(u, g)
    \/ \E u \in Users, g \in 1..MaxTaskGroups, t \in Users : remove_member(u, g, t)
    \/ \E w \in TaskWorkers, u \in Users, g \in 1..MaxTaskGroups :
           /\ next_task_id <= MaxLifecycleTasks
           /\ create_task_dependency(w, u, g, FALSE, <<>>)
    \/ \E w \in TaskWorkers, u \in Users, g \in 1..MaxTaskGroups, ids \in ConcLists :
           /\ next_task_id <= MaxLifecycleTasks
           /\ create_task_dependency(w, u, g, TRUE, ids)
    \/ \E w \in TaskWorkers : create_task_commit(w)
    \/ \E w \in TaskWorkers, u \in Users, g \in 1..MaxTaskGroups,
          t \in 1..MaxLifecycleTasks, ids \in ConcLists :
           update_task_assignments_dependency(w, u, g, t, ids)
    \/ \E w \in TaskWorkers : update_task_assignments_commit(w)

SpecConcTasks == Init /\ [][NextConcTasks]_vars

\* One group and its first task: members join and leave while a worker of
\* TaskWorkers replaces the task's assignments, reading the membership in the
\* dependency and committing later.
NextConcAssign ==
    \/ \E u \in Users : next_group_id <= MaxTaskGroups /\ create_group(u)
    \/ \E u \in Users, c \in Codes : join_group(u, c)
    \/ \E u \in Users, g \in 1..MaxTaskGroups : leave_group(u, g)
    \/ \E u \in Users, g \in 1..MaxTaskGroups :
           next_task_id <= MaxLifecycleTasks /\ create_task(u, g, FALSE, <<>>)
    \/ \E w \in TaskWorkers, u \in Users, g \in 1..MaxTaskGroups,
          t \in 1..MaxLifecycleTasks, ids \in IdLists :
           update_task_assignments_dependency(w, u, g, t, ids)
    \/ \E w \in TaskWorkers : update_task_assignments_commit(w)

SpecConcAssign == Init /\ [][NextConcAssign]_vars

\* ============================================================== properties
\* The rows of group g in the committed membership table.
Rows(g) == {m \in group_members : m.group_id = g}

RowsNext(g) == {m \in group_members' : m.group_id = g}

AllGroupIds == 1..MaxGroups

\* C1: after any sequence of create_group, join_group, leave_group and
\* remove_member requests, each run to completion, every existing group with at
\* least one membership row has exactly one row with role admin.
C1_ExactlyOneAdmin ==
    \A g \in DOMAIN groups :
        Rows(g) /= {} => Cardinality({m \in Rows(g) : m.role = "admin"}) = 1

\* The admin of a group with other members has left and a successor holds the role.
C1_Witness ==
    /\ resp.op \in {"leave_group", "remove_member"}
    /\ resp.status = 204
    /\ resp.promoted /= 0
    /\ resp.group \in DOMAIN groups
    /\ Cardinality(Rows(resp.group)) >= 2

\* C2: when the admin of a group with n > 1 members leaves, or removes
\* themselves, then afterwards a remaining member whose joined_at is the
\* smallest among the remaining members is admin, the group's created_by is
\* that member, the departing user's row is gone and n - 1 rows remain.
C2_AdminSuccession ==
    [][resp'.op \in {"leave_group", "remove_member"} =>
       \A u \in Users, g \in AllGroupIds :
        (/\ g \in DOMAIN groups
         /\ \E m \in Rows(g) : m.user_id = u /\ m.role = "admin"
         /\ Cardinality(Rows(g)) > 1
         /\ (leave_group(u, g) \/ remove_member(u, g, u)))
        => (/\ resp'.status = 204
            /\ g \in DOMAIN groups'
            /\ \A m \in RowsNext(g) : m.user_id /= u
            /\ Cardinality(RowsNext(g)) = Cardinality(Rows(g)) - 1
            /\ \E m \in RowsNext(g) :
                /\ m.role = "admin"
                /\ groups'[g].created_by = m.user_id
                /\ \A x \in RowsNext(g) : m.joined_at <= x.joined_at)]_vars

\* The admin has left a group of three whose two other members joined at
\* different times.
C2_Witness ==
    /\ resp.op \in {"leave_group", "remove_member"}
    /\ resp.status = 204
    /\ resp.promoted /= 0
    /\ resp.group \in DOMAIN groups
    /\ \E m, x \in Rows(resp.group) : m.joined_at < x.joined_at

\* C3: when the sole member of a group leaves, or removes themselves, the
\* group row, its membership rows, its tasks, their assignment rows and their
\* completion rows are all deleted, and get_group for that id then answers 404.
C3_SoleMemberCascade ==
    [][resp'.op \in {"leave_group", "remove_member", "get_group"} =>
       \A u \in Users, g \in AllGroupIds :
        /\ (/\ g \in DOMAIN groups
            /\ {m.user_id : m \in Rows(g)} = {u}
            /\ (leave_group(u, g) \/ remove_member(u, g, u)))
           => (/\ resp'.status = 204
               /\ g \notin DOMAIN groups'
               /\ RowsNext(g) = {}
               /\ \A t \in DOMAIN tasks' : tasks'[t].group_id /= g
               /\ \A a \in task_assignments' :
                      a.task_id \in DOMAIN tasks' /\ tasks'[a.task_id].group_id /= g
               /\ \A c \in completions' :
                      /\ c.group_id /= g
                      /\ c.task_id \in DOMAIN tasks'
                      /\ tasks'[c.task_id].group_id /= g)
        /\ (g \notin DOMAIN groups /\ get_group(u, g))
           => resp'.status = 404]_vars

\* A group that had a task and a completion was deleted by its last member's
\* departure, and a later get_group for it was answered 404.
C3_Witness ==
    /\ resp.op = "get_group"
    /\ resp.status = 404
    /\ resp.group < next_group_id
    /\ resp.group \notin DOMAIN groups
    /\ next_completion_id > 1
    /\ completions = {}
    /\ tasks = <<>>

\* C4: after any sequence of leave_group and remove_member requests no group
\* row exists with zero membership rows.
C4_NoEmptyGroup == \A g \in DOMAIN groups : Rows(g) /= {}

\* The last member of a group has left and the group is gone.
C4_Witness ==
    /\ resp.op \in {"leave_group", "remove_member"}
    /\ resp.status = 204
    /\ resp.group \notin DOMAIN groups
    /\ groups /= <<>>

\* C5: create_group creates the group row and the creator's admin row
\* atomically: no committed state holds a group row without the admin row of
\* its creator.
C5_GroupHasCreatorRow ==
    \A g \in DOMAIN groups :
        \E m \in Rows(g) : m.user_id = groups[g].created_by /\ m.role = "admin"

C7_JoinAddsOneMember ==
    /\ [][resp'.op = "join_group" =>
          \A u \in Users, c \in Codes, g \in AllGroupIds :
            (/\ g \in DOMAIN groups
             /\ groups[g].invite_code = c
             /\ \A m \in Rows(g) : m.user_id /= u
             /\ join_group(u, c))
            => (/\ resp'.status = 200
                /\ resp'.group = g
                /\ group_members \subseteq group_members'
                /\ \E t \in Times : group_members' \ group_members =
                       {[user_id |-> u, group_id |-> g, joined_at |-> t,
                         role |-> "member"]}
                /\ Cardinality(RowsNext(g)) = Cardinality(Rows(g)) + 1)]_vars
    /\ [](\A m1, m2 \in group_members :
            (m1.group_id = m2.group_id /\ m1.user_id = m2.user_id) => m1 = m2)

\* A user has joined a group that now has two members or more.
C7_Witness ==
    /\ resp.op = "join_group"
    /\ resp.status = 200
    /\ Cardinality(Rows(resp.group)) >= 2

\* C8: join_group with an invite code of no existing group is answered 404,
\* join_group by a member of the matched group is answered 400 (already a
\* member); both leave the membership rows and the group rows unchanged.
C8_JoinFailures ==
    [][resp'.op = "join_group" => \A u \in Users, c \in Codes :
        /\ ((\A g \in DOMAIN groups : groups[g].invite_code /= c) /\ join_group(u, c))
           => (resp'.status = 404 /\ UNCHANGED <<groups, group_members>>)
        /\ ((\E g \in DOMAIN groups :
                groups[g].invite_code = c /\ \E m \in Rows(g) : m.user_id = u)
            /\ join_group(u, c))
           => (resp'.status = 400 /\ UNCHANGED <<groups, group_members>>)]_vars

\* A member's second join was refused while another group exists.
C8_Witness ==
    /\ resp.op = "join_group"
    /\ resp.status = 400
    /\ Cardinality(DOMAIN groups) >= 2

\* C9: every assignment row committed by create_task or
\* update_task_assignments refers to a user who is a member of the task's group
\* in the committed state that first holds the row.
C9_NewAssigneesAreMembers ==
    [][\A a \in task_assignments' \ task_assignments :
        /\ a.task_id \in DOMAIN tasks'
        /\ \E m \in group_members' :
               m.group_id = tasks'[a.task_id].group_id /\ m.user_id = a.user_id]_vars

\* C10: create_task by a member of the group, with an explicit list holding an
\* id that is no member of the group, is answered 400, the error names exactly
\* the listed ids that are no members, and no task or assignment row is written.
C10_InvalidAssignees ==
    [][resp'.op = "create_task" =>
       \A u \in Users, g \in AllGroupIds, ids \in IdLists :
        (/\ g \in DOMAIN groups
         /\ \E m \in Rows(g) : m.user_id = u
         /\ \E i \in DOMAIN ids : \A m \in Rows(g) : m.user_id /= ids[i]
         /\ create_task(u, g, TRUE, ids))
        => (/\ resp'.status = 400
            /\ resp'.detail = {ids[i] : i \in DOMAIN ids} \ {m.user_id : m \in Rows(g)}
            /\ UNCHANGED <<tasks, task_assignments, next_task_id>>)]_vars

\* A list of one member and one non-member was refused, naming the non-member.
C10_Witness ==
    /\ resp.op = "create_task"
    /\ resp.status = 400
    /\ Cardinality(resp.detail) = 1
    /\ Cardinality(Rows(resp.group)) >= 2

\* The rows of task t in the committed assignment table, before and after a step.
AssignedTo(t) == {a.user_id : a \in {x \in task_assignments : x.task_id = t}}

AssignedToNext(t) == {a.user_id : a \in {x \in task_assignments' : x.task_id = t}}

\* C11: create_task by a member with no assigned_user_ids creates a task whose
\* assignment rows name exactly the members the group has at that moment;
\* create_task with an explicit empty list creates a task with no assignment row.
C11_DefaultAssignsAllMembers ==
    [][resp'.op = "create_task" =>
       \A u \in Users, g \in AllGroupIds :
        (/\ g \in DOMAIN groups
         /\ \E m \in Rows(g) : m.user_id = u)
        => /\ create_task(u, g, FALSE, <<>>)
              => (/\ resp'.status = 201
                  /\ DOMAIN tasks' = DOMAIN tasks \cup {next_task_id}
                  /\ tasks'[next_task_id].group_id = g
                  /\ AssignedToNext(next_task_id) = {m.user_id : m \in Rows(g)})
           /\ create_task(u, g, TRUE, <<>>)
              => (/\ resp'.status = 201
                  /\ DOMAIN tasks' = DOMAIN tasks \cup {next_task_id}
                  /\ tasks'[next_task_id].group_id = g
                  /\ AssignedToNext(next_task_id) = {})]_vars

\* A task was created in a group of three and every member is assigned to it.
C11_Witness ==
    /\ resp.op = "create_task"
    /\ resp.status = 201
    /\ Cardinality(Rows(resp.group)) = NumUsers
    /\ \E t \in DOMAIN tasks :
           /\ tasks[t].group_id = resp.group
           /\ AssignedTo(t) = {m.user_id : m \in Rows(resp.group)}

\* C12: join_group leaves every task assignment row unchanged, and so do
\* leave_group and remove_member on a group that has another member left: the
\* user who joins is added to no task, the rows of the user who departs stay.
C12_MembershipLeavesAssignments ==
    [][/\ resp'.op = "join_group" => task_assignments' = task_assignments
       /\ resp'.op \in {"leave_group", "remove_member"} =>
            \A u \in Users, g \in AllGroupIds, target \in Users :
                (/\ Cardinality(Rows(g)) >= 2
                 /\ (leave_group(u, g) \/ remove_member(u, g, target)))
                => task_assignments' = task_assignments]_vars

\* A member has departed from a group that goes on, and a task of the group is
\* still assigned to a user who is no member of it.
C12_Witness ==
    /\ resp.op \in {"leave_group", "remove_member"}
    /\ resp.status = 204
    /\ resp.group \in DOMAIN groups
    /\ \E a \in task_assignments :
           /\ a.task_id \in DOMAIN tasks
           /\ tasks[a.task_id].group_id = resp.group
           /\ \A m \in Rows(resp.group) : m.user_id /= a.user_id

\* The rows of the tasks other than t, before and after a step.
OtherRows(t) == {a \in task_assignments : a.task_id /= t}

OtherRowsNext(t) == {a \in task_assignments' : a.task_id /= t}

\* C13: a successful update_task_assignments on task t with list ids leaves t
\* assigned to exactly the ids of the list (to nobody when the list is empty)
\* and leaves the assignment rows of every other task as they were.
C13_ReplaceIsFullSet ==
    [][(resp'.op = "update_task_assignments" /\ resp'.status = 200) =>
       \A u \in Users, ids \in IdLists :
        update_task_assignments(u, resp'.group, resp'.task, ids)
        => (/\ AssignedToNext(resp'.task) = {ids[i] : i \in DOMAIN ids}
            /\ OtherRowsNext(resp'.task) = OtherRows(resp'.task))]_vars

\* The assignments of one task were replaced by a single id while the other
\* task of the group is assigned to three users.
C13_Witness ==
    /\ resp.op = "update_task_assignments"
    /\ resp.status = 200
    /\ Cardinality(AssignedTo(resp.task)) = 1
    /\ \E t \in DOMAIN tasks : t /= resp.task /\ Cardinality(AssignedTo(t)) = NumUsers

\* C14: when the request last answered was a successful
\* update_task_assignments on a task, the same request with a list of the same
\* ids, sent next, succeeds again and leaves every assignment row as the first
\* one left it.
C14_ReplaceIsIdempotent ==
    [][(/\ resp.op = "update_task_assignments"
        /\ resp.status = 200
        /\ resp'.op = "update_task_assignments") =>
       \A u \in Users, ids \in IdLists :
        (/\ AssignedTo(resp.task) = {ids[i] : i \in DOMAIN ids}
         /\ Cardinality(AssignedTo(resp.task)) = Len(ids)
         /\ \E m \in Rows(resp.group) : m.user_id = u
         /\ update_task_assignments(u, resp.group, resp.task, ids))
        => (/\ resp'.status = 200
            /\ task_assignments' = task_assignments)]_vars

\* A task of a group with another task was assigned to two users by a
\* replacement, and that is its state after the replacement is repeated.
C14_Witness ==
    /\ resp.op = "update_task_assignments"
    /\ resp.status = 200
    /\ Cardinality(AssignedTo(resp.task)) = 2
    /\ Cardinality(DOMAIN tasks) = 2

\* C15: update_task_assignments is all or nothing. A request that is answered
\* with an error (unknown task, id of a non-member, insert refused by the
\* store) leaves every committed assignment row as it was; and the committed
\* rows of a task that goes on existing change only in the step in which a
\* request commits, to exactly the ids of that request's list.
C15_ReplaceIsAtomic ==
    [][/\ \A w \in Workers :
            (/\ req[w].pc = "update_task_assignments_body"
             /\ req'[w].pc = "idle"
             /\ resp'.status /= 200)
            => task_assignments' = task_assignments
       /\ \A t \in TaskIds :
            (/\ t \in DOMAIN tasks
             /\ t \in DOMAIN tasks'
             /\ AssignedToNext(t) /= AssignedTo(t))
            => \E w \in Workers :
                /\ req[w].pc = "update_task_assignments_body"
                /\ req[w].task = t
                /\ req'[w].pc = "idle"
                /\ resp'.status = 200
                /\ AssignedToNext(t) = {req[w].ids[i] : i \in DOMAIN req[w].ids}]_vars

\* A replacement was refused by the store on its second insert and the task
\* has kept the two rows it had.
C15_Witness ==
    /\ resp.op = "update_task_assignments"
    /\ resp.status = 500
    /\ \E t \in DOMAIN tasks : Cardinality(AssignedTo(t)) >= 2

\* C16: a create_group whose every draw is the invite code of an existing
\* group calls the generator max_attempts times, no more, is answered with an
\* error, and writes no group row and no membership row; no create_group calls
\* the generator more than max_attempts times.
C16_CodeSpaceExhausted ==
    [][resp'.op = "create_group" =>
        /\ resp'.calls \in 1..max_attempts
        /\ resp'.status \in {201, 500}
        /\ resp'.status = 500 =>
              (/\ resp'.calls = max_attempts
               /\ groups /= <<>>
               /\ UNCHANGED <<groups, group_members, next_group_id>>)
        /\ resp'.status = 201 =>
              (/\ DOMAIN groups' = DOMAIN groups \cup {next_group_id}
               /\ \A g \in DOMAIN groups :
                      groups[g].invite_code /= groups'[next_group_id].invite_code)]_vars

\* A create_group gave up after max_attempts draws and the one group there
\* was is still the only one.
C16_Witness ==
    /\ resp.op = "create_group"
    /\ resp.status = 500
    /\ resp.calls = max_attempts
    /\ Cardinality(DOMAIN groups) = 1
    /\ Cardinality(group_members) = 1

\* C17: no two existing groups have the same invite code, also when two
\* create_group requests run side by side, keep the same draw and both reach
\* the insert.
C17_InviteCodesUnique ==
    \A g1, g2 \in DOMAIN groups :
        groups[g1].invite_code = groups[g2].invite_code => g1 = g2

\* Two requests kept the same draw: the first has committed its group, the
\* insert of the second was refused before its attempts ran out.
C17_Witness ==
    /\ resp.op = "create_group"
    /\ resp.status = 500
    /\ resp.group = 0
    /\ resp.calls < max_attempts
    /\ groups /= <<>>

\* C18: a create_group whose insert of the group row is refused by the unique
\* index on invite_code, with attempts left, does not fail: it goes on with
\* another draw.
C18_InsertCollisionRetried ==
    [][\A w \in Workers :
        (/\ req[w].pc = "create_group_insert"
         /\ req[w].calls < max_attempts
         /\ \E g \in DOMAIN groups : groups[g].invite_code = req[w].code
         /\ req'[w] /= req[w])
        => ~(req'[w].pc = "idle" /\ resp'.op = "create_group" /\ resp'.status = 500)]_vars

\* C19: the member promoted when the admin departs is the remaining member with
\* the smallest (joined_at, user_id): among the remaining members that joined
\* first, the one with the smallest user id.
C19_SuccessorIsLexMin ==
    [][(resp'.op \in {"leave_group", "remove_member"} /\ resp'.promoted /= 0) =>
        \A m, x \in RowsNext(resp'.group) :
            m.user_id = resp'.promoted
            => \/ m.joined_at < x.joined_at
               \/ (m.joined_at = x.joined_at /\ m.user_id <= x.user_id)]_vars

\* C20: under every interleaving of leave_group and remove_member requests
\* that workers run side by side on one group, every committed state of a
\* group with at least one member has one admin: not none, not two.
C20_OneAdminUnderInterleaving ==
    \A g \in DOMAIN groups :
        Rows(g) /= {} =>
            /\ \E m \in Rows(g) : m.role = "admin"
            /\ \A m1, m2 \in Rows(g) :
                   (m1.role = "admin" /\ m2.role = "admin") => m1 = m2

\* C21: once every leave_group and remove_member request that workers ran side
\* by side on a group has committed, the group has a member or is deleted: no
\* group row without a membership row is left.
C21_NoEmptyGroupWhenCommitted ==
    (\A w \in Workers : req[w].pc = "idle")
    => \A g \in DOMAIN groups : \E m \in group_members : m.group_id = g

C23_RemoveNeedsAdmin ==
    [][resp'.op = "remove_member" =>
       \A u \in Users, target \in Users :
        (resp'.group \in DOMAIN groups /\ remove_member(u, resp'.group, target))
        => LET caller == {m \in Rows(resp'.group) : m.user_id = u}
               named == {m \in Rows(resp'.group) : m.user_id = target}
           IN  IF caller = {} \/ \E m \in caller : m.role /= "admin"
               THEN resp'.status = 403 /\ UNCHANGED <<groups, group_members>>
               ELSE IF named = {}
               THEN resp'.status = 404 /\ UNCHANGED <<groups, group_members>>
               ELSE target /= u =>
                    (/\ resp'.status = 204
                     /\ group_members' = group_members \ named
                     /\ groups' = groups)]_vars

\* The admin of a group named a user who is no member of it.
C23_Witness ==
    /\ resp.op = "remove_member"
    /\ resp.status = 404
    /\ resp.group \in DOMAIN groups
    /\ Cardinality(Rows(resp.group)) >= 2

\* C24: a successful delete_task sets is_active of the task to false and
\* changes nothing else: the task row stays, the assignment rows and the
\* completion rows are as before. list_tasks returns a task that is not
\* active when include_inactive is true and only then.
C24_SoftDeleteKeepsRows ==
    [][/\ (resp'.op = "delete_task" /\ resp'.status = 204) =>
            \A u \in Users, t \in TaskIds :
                delete_task(u, resp'.group, t)
                => (/\ t \in DOMAIN tasks
                    /\ tasks' = [tasks EXCEPT ![t].is_active = FALSE]
                    /\ UNCHANGED <<task_assignments, completions, groups,
                                   group_members>>)
       /\ (resp'.op = "list_tasks" /\ resp'.status = 200) =>
            \A u \in Users, inc \in BOOLEAN :
                list_tasks(u, resp'.group, inc)
                => \A t \in DOMAIN tasks :
                     (tasks[t].group_id = resp'.group /\ ~tasks[t].is_active)
                     => (t \in resp'.detail <=> inc)]_vars

\* A listing has returned a task that was soft-deleted and still has its
\* assignment rows and its completion row.
C24_Witness ==
    /\ resp.op = "list_tasks"
    /\ resp.status = 200
    /\ \E t \in resp.detail :
           /\ ~tasks[t].is_active
           /\ AssignedTo(t) /= {}
           /\ \E c \in completions : c.task_id = t

\* C25: the admin of a group can delete it whatever its member count: from
\* every state with a group that has members, one request leads to a state
\* without the group row and without its membership rows.
C25_GroupCanBeDeleted ==
    \A g \in DOMAIN groups :
        Rows(g) /= {} => ENABLED (Next /\ g \notin DOMAIN groups' /\ RowsNext(g) = {})

\* C26: when the admin departs from a group with other members (leave_group,
\* or remove_member of oneself), the promotion of the successor comes before
\* the DELETE of the admin's row and both are committed together: after every
\* write of the operation the group has an admin, the committed state is the
\* state after the last write, and in it the successor is the admin and the
\* creator.
C26_PromotionBeforeDelete ==
    [][(resp'.op \in {"leave_group", "remove_member"} /\ resp'.status = 204
            /\ resp'.promoted /= 0) =>
        LET g == resp'.group
            o == resp'.promoted
            gone == CHOOSE u \in Users :
                        IsMember(group_members, g, u) /\ ~IsMember(group_members', g, u)
            w == DepartureWrites(group_members, groups, g, o, gone)
        IN  /\ RoleOf(group_members, g, gone) = "admin"
            /\ \A i \in DOMAIN w :
                   \E m \in w[i].members : m.group_id = g /\ m.role = "admin"
            /\ group_members' = w[Len(w)].members
            /\ groups' = w[Len(w)].groups
            /\ RoleOf(group_members', g, o) = "admin"
            /\ groups'[g].created_by = o]_vars

C26_Witness ==
    /\ resp.op = "remove_member"
    /\ resp.status = 204
    /\ resp.promoted /= 0
    /\ RoleOf(group_members, resp.group, resp.promoted) = "admin"
    /\ Cardinality(Rows(resp.group)) = 2

\* C27: create_group gives the new group the first candidate no existing group
\* uses, with at most max_attempts generator calls: for every sequence of
\* candidates whose first unused one is the k-th (1 <= k <= max_attempts, k =
\* max_attempts included) the loop leaves after k calls with that candidate,
\* and every group created was created that way.
C27_FirstUnusedCandidate ==
    [][resp'.op = "create_group" =>
        LET Unused(cs) == {i \in 1..max_attempts :
                             \A g \in DOMAIN groups : groups[g].invite_code /= cs[i]}
            First(cs) == CHOOSE i \in Unused(cs) : \A j \in Unused(cs) : i <= j
        IN  /\ \A cs \in [1..max_attempts -> Codes] :
                   Unused(cs) /= {} =>
                       [calls |-> First(cs), code |-> cs[First(cs)],
                        found |-> TRUE] \in InviteCodeLoop(groups)
            /\ \A loop \in InviteCodeLoop(groups) :
                   loop.found =>
                       \E cs \in [1..max_attempts -> Codes] :
                           /\ Unused(cs) /= {}
                           /\ loop.calls = First(cs)
                           /\ loop.code = cs[loop.calls]
            /\ resp'.status = 201 =>
                   /\ [calls |-> resp'.calls,
                       code |-> groups'[next_group_id].invite_code,
                       found |-> TRUE] \in InviteCodeLoop(groups)
                   /\ resp'.group = next_group_id
                   /\ DOMAIN groups' = DOMAIN groups \cup {next_group_id}]_vars

\* A group was created with the fifth candidate, the first four being the
\* invite code of the group there was.
C27_Witness ==
    /\ resp.op = "create_group"
    /\ resp.status = 201
    /\ resp.calls = max_attempts
    /\ resp.group \in DOMAIN groups

\* C28: leave_group and remove_member delete a group only if the departing
\* user is its only member in the committed state at the moment of the
\* deletion; a join_group that commits between the count and the delete keeps
\* the group and the membership row of the user who joined.
C28_DeleteOnlySoleMember ==
    [][\A g \in DOMAIN groups :
          g \notin DOMAIN groups' => Cardinality(Rows(g)) = 1]_vars

\* C29: for every list whose ids are all members of the group, an id repeated
\* or not, create_task and update_task_assignments succeed and leave the task
\* with one assignment row for each distinct id of the list.
C29_RepeatedIdsAccepted ==
    [][/\ resp'.op = "update_task_assignments" =>
            \A u \in Users, t \in TaskIds, ids \in IdLists :
                (/\ get_current_group_member(groups, group_members, resp'.group, u) = 0
                 /\ TaskFound(tasks, resp'.group, t)
                 /\ Range(ids) \subseteq MemberIds(group_members, resp'.group)
                 /\ update_task_assignments(u, resp'.group, t, ids))
                => (resp'.status = 200 /\ AssignedToNext(t) = Range(ids))
       /\ resp'.op = "create_task" =>
            \A u \in Users, ids \in IdLists :
                (/\ get_current_group_member(groups, group_members, resp'.group, u) = 0
                 /\ Range(ids) \subseteq MemberIds(group_members, resp'.group)
                 /\ create_task(u, resp'.group, TRUE, ids))
                => (resp'.status = 201 /\ AssignedToNext(next_task_id) = Range(ids))]_vars

\* The step is the request op of user u addressed to group g, op being one of
\* the handlers that check the membership of the user in the group.
GroupScopedRequest(op, u, g) ==
    CASE op = "get_group" -> get_group(u, g)
      [] op = "list_group_members" -> list_group_members(u, g)
      [] op = "leave_group" -> leave_group(u, g)
      [] op = "remove_member" -> \E target \in Users : remove_member(u, g, target)
      [] op = "create_task" ->
            \/ create_task(u, g, FALSE, <<>>)
            \/ \E ids \in ConcLists : create_task(u, g, TRUE, ids)
      [] op = "list_tasks" -> \E inc \in BOOLEAN : list_tasks(u, g, inc)
      [] op = "update_task" ->
            \E t \in 1..MaxLifecycleTasks, n \in Names : update_task(u, g, t, n)
      [] op = "update_task_assignments" ->
            \E t \in 1..MaxLifecycleTasks, ids \in ConcLists :
                update_task_assignments(u, g, t, ids)
      [] op = "delete_task" -> \E t \in 1..MaxLifecycleTasks : delete_task(u, g, t)
      [] OTHER -> FALSE

\* C30 as stated: the request that follows a successful leave_group or
\* remove_member, sent by the user whose membership was removed and addressed
\* to the same group, is answered Forbidden and changes no state.
C30_FormerMemberForbidden ==
    [][(resp.op \in {"leave_group", "remove_member"} /\ resp.status = 204
            /\ resp'.group = resp.group) =>
        (GroupScopedRequest(resp'.op, resp.user, resp.group)
         => (resp'.status = 403 /\ UNCHANGED store))]_vars

\* C30: a user whose membership row in a group was removed has no membership
\* row there until they join again, and every request such a user addresses to
\* the group (get_group, list_group_members, leave_group, remove_member,
\* create_task, list_tasks, update_task, update_task_assignments, delete_task)
\* is rejected and changes no state: with Forbidden while the group exists,
\* with NotFound when the group has been deleted.
C30_FormerMemberRejected ==
    [][\A u \in Users :
        (/\ resp'.group \in 1..(next_group_id - 1)
         /\ ~IsMember(group_members, resp'.group, u)
         /\ ~(/\ resp'.status = IF resp'.group \in DOMAIN groups THEN 403 ELSE 404
              /\ UNCHANGED store))
        => ~GroupScopedRequest(resp'.op, u, resp'.group)]_vars

\* list_tasks was refused to the one user who is not a member of the group;
\* that user still has an assignment row on a task of the group, so was a
\* member when the task was created or assigned.
C30_Witness ==
    /\ resp.op = "list_tasks"
    /\ resp.status = 403
    /\ resp.group \in DOMAIN groups
    /\ \E u \in Users :
          /\ Users \ MemberIds(group_members, resp.group) = {u}
          /\ \E a \in task_assignments :
                a.user_id = u /\ tasks[a.task_id].group_id = resp.group

\* C31: soft deletion of a task is irreversible and idempotent. A task whose
\* is_active is false stays inactive through every create_task, update_task,
\* update_task_assignments and delete_task; delete_task sent again by an admin
\* for an inactive task is answered 204 and leaves the task rows as they were;
\* and a task row, active or not, goes away only with the row of its group.
C31_SoftDeleteIrreversible ==
    [][/\ \A t \in DOMAIN tasks :
            /\ (~tasks[t].is_active /\ t \in DOMAIN tasks') => ~tasks'[t].is_active
            /\ t \notin DOMAIN tasks' =>
                   (/\ tasks[t].group_id \in DOMAIN groups
                    /\ tasks[t].group_id \notin DOMAIN groups')
       /\ resp'.op = "delete_task" =>
            \A u \in Users, t \in DOMAIN tasks :
                (/\ ~tasks[t].is_active
                 /\ tasks[t].group_id = resp'.group
                 /\ RoleOf(group_members, resp'.group, u) = "admin"
                 /\ delete_task(u, resp'.group, t))
                => (resp'.status = 204 /\ tasks' = tasks)]_vars

\* update_task has renamed a task that was soft-deleted before, and the task
\* is still inactive.
C31_Witness ==
    /\ resp.op = "update_task"
    /\ resp.status = 200
    /\ resp.task \in DOMAIN tasks
    /\ ~tasks[resp.task].is_active
    /\ tasks[resp.task].name /= 1

====
